---- MODULE Spec2Model ----
(***************************************************************************)
(* samri/report/snr.py: significant_signal, iter_significant_signal,       *)
(* base_metrics and iter_base_metrics.                                     *)
(*                                                                         *)
(* Strings are sequences of one-character strings; a format field such as  *)
(* {subject} is one token "{subject}" of a template.  A dictionary is a    *)
(* function whose domain is its key set.  The file system is a function    *)
(* from the absolute paths that exist to the file contents.                *)
(*                                                                         *)
(* Numbers.  A voxel is an integer >= 0, or NaNV for a float NaN.  After   *)
(* line 54 the values are kept in hundredths, so that 0.99 * min is the    *)
(* integer 99 * min and an untouched voxel v is 100 * v.  -log10 is not    *)
(* evaluated: a statistic is the record [nan, terms], read as the          *)
(* arithmetic mean of -log10(t / 100) over the listed terms t (sorted).    *)
(* -log10 is injective, so equal term lists are equal floats.              *)
(***************************************************************************)
EXTENDS Integers, Sequences, FiniteSets, TLC

\* ------------------------------------------------------------------ bounds
MaxCpu == 4
MaxN == 2
MaxVox == 3
MaxVal == 2

VARIABLES
    mode,           \* which entry point runs: "sig", "base" or "unit"
    file_template,  \* argument file_template / data_path
    substitutions,  \* argument substitutions (list of dicts)
    mask_path,      \* argument mask_path
    save_as,        \* argument save_as
    fs,             \* NIfTI files on disk: absolute path -> volume
    csv,            \* delimited files on disk: absolute path -> text table
    pc,             \* "call", "pool", "returned", "raised"
    cpu_count,      \* what mp.cpu_count() answered
    n_jobs,         \* the n_jobs handed to Parallel
    status,         \* per job: "pending", "running", "done"
    iter_data,      \* the list Parallel returns, filled as jobs complete
    order,          \* job indices in the order the jobs completed
    err,            \* the exception that left the call
    df,             \* the DataFrame the call returned
    mask_loads,     \* number of nib.load(mask_path) calls so far
    ret             \* outcome of a direct significant_signal call

vars == <<mode, file_template, substitutions, mask_path, save_as, fs, csv, pc,
          cpu_count, n_jobs, status, iter_data, order, err, df, mask_loads, ret>>

\* ------------------------------------------------------------- small helpers
NaNV == -1

Range(s) == {s[i] : i \in 1..Len(s)}

SeqsUpTo(S, n) == UNION {[1..k -> S] : k \in 0..n}

EmptyDict == [k \in {} |-> <<>>]

NoError == [type |-> "", at |-> ""]

Error(t, a) == [type |-> t, at |-> a]

RECURSIVE Flatten(_)
Flatten(vols) ==
    IF vols = <<>> THEN <<>> ELSE Head(vols) \o Flatten(Tail(vols))

RECURSIVE Insert(_, _)
Insert(x, s) ==
    IF s = <<>> THEN <<x>>
    ELSE IF x <= Head(s) THEN <<x>> \o s
    ELSE <<Head(s)>> \o Insert(x, Tail(s))

RECURSIVE Sort(_)
Sort(s) == IF s = <<>> THEN <<>> ELSE Insert(Head(s), Sort(Tail(s)))

RECURSIVE Sum(_)
Sum(s) == IF s = <<>> THEN 0 ELSE Head(s) + Sum(Tail(s))

\* ------------------------------------------------------------ path resolution
PlaceholderKey ==
    ("{subject}" :> "subject") @@ ("{session}" :> "session") @@
    ("{task}" :> "task") @@ ("{acquisition}" :> "acquisition")

Home == <<"/", "h">>

Cwd == <<"/", "w">>

\* str.format(**substitution): every field is replaced by the value of its
\* key; a field whose key is absent raises KeyError; extra keys are ignored.
RECURSIVE Format(_, _)
Format(t, sub) ==
    IF t = <<>> THEN [ok |-> TRUE, s |-> <<>>]
    ELSE LET tok == Head(t)
             rest == Format(Tail(t), sub)
         IN  IF tok \in DOMAIN PlaceholderKey
             THEN IF PlaceholderKey[tok] \in DOMAIN sub /\ rest.ok
                  THEN [ok |-> TRUE, s |-> sub[PlaceholderKey[tok]] \o rest.s]
                  ELSE [ok |-> FALSE, s |-> <<>>]
             ELSE IF rest.ok
                  THEN [ok |-> TRUE, s |-> <<tok>> \o rest.s]
                  ELSE [ok |-> FALSE, s |-> <<>>]

\* path.expanduser: a leading "~" (alone or before "/") becomes the home.
ExpandUser(p) ==
    IF p # <<>> /\ Head(p) = "~" /\ (Len(p) = 1 \/ p[2] = "/")
    THEN Home \o Tail(p)
    ELSE p

\* path.abspath: a path that does not start at the root is joined to the
\* working directory (the inputs hold no "." or ".." segment to normalise).
AbsPath(p) ==
    IF p # <<>> /\ Head(p) = "/" THEN p
    ELSE IF p = <<>> THEN Cwd
    ELSE Cwd \o <<"/">> \o p

\* Lines 40-42 and 138-141: the template is formatted only when the
\* substitution is non-empty, then made absolute.
ResolvePath(data_path, substitution) ==
    IF DOMAIN substitution # {}
    THEN LET f == Format(data_path, substitution)
         IN  IF f.ok THEN [ok |-> TRUE, s |-> AbsPath(ExpandUser(f.s))]
             ELSE f
    ELSE [ok |-> TRUE, s |-> AbsPath(ExpandUser(data_path))]

\* ---------------------------------------------------- significance statistic
NaNStat == [nan |-> TRUE, terms |-> <<>>]

Stat(terms) == [nan |-> FALSE, terms |-> terms]

\* Variant: the comparison is mask <= 0.5.
MaskedOutInclusive(m) == m <= 5

\* mask = (mask < 0.5): mask values are kept in tenths.
MaskedOut(m) == m < 5

\* Lines 50-51: np.ma.masked_array(data, mask): one cell per voxel.
MaskedArray(data, mask) ==
    [i \in 1..Len(data) |-> [v |-> data[i], m |-> MaskedOut(mask[i])]]

\* Without a mask the plain array: no cell is masked.
PlainArray(data) == [i \in 1..Len(data) |-> [v |-> data[i], m |-> FALSE]]

IsNotNaN(c) == c.v # NaNV

\* Line 52: data[~np.isnan(data)] keeps the cells that are not NaN.
DropNaN(a) == SelectSeq(a, IsNotNaN)

IsNonzero(c) == ~c.m /\ c.v # 0

\* Line 53: data[np.nonzero(data)]: the unmasked cells that differ from 0
\* (NaN differs from 0).
Nonzero(a) == SelectSeq(a, IsNonzero)

\* Line 54: np.min(nonzero) * 0.99, in hundredths; NaN if a NaN is present.
DataMin(nonzero) ==
    LET vs == {nonzero[i].v : i \in 1..Len(nonzero)}
    IN  IF NaNV \in vs THEN NaNV
        ELSE 99 * (CHOOSE x \in vs : \A y \in vs : x <= y)

\* Line 55: data[data == 0] = data_min; a masked cell never compares equal.
ReplaceZeros(a, data_min) ==
    [i \in 1..Len(a) |->
        IF ~a[i].m /\ a[i].v = 0 THEN [v |-> data_min, m |-> FALSE]
        ELSE [v |-> IF a[i].v = NaNV THEN NaNV ELSE 100 * a[i].v,
              m |-> a[i].m]]

IsUnmasked(c) == ~c.m

\* The values the two reductions see: the unmasked cells.
Compressed(a) ==
    LET u == SelectSeq(a, IsUnmasked)
    IN  [i \in 1..Len(u) |-> u[i].v]

\* Line 60: np.mean(-log10(data)).
MeanNegLog10(xs) ==
    IF xs = <<>> \/ NaNV \in Range(xs) THEN NaNStat ELSE Stat(Sort(xs))

\* Line 59: np.ma.median(-log10(data)): the middle term, or the mean of the
\* two middle terms.
MedianNegLog10(xs) ==
    IF xs = <<>> \/ NaNV \in Range(xs) THEN NaNStat
    ELSE LET s == Sort(xs)
             n == Len(s)
         IN  IF n % 2 = 1 THEN Stat(<<s[(n + 1) \div 2]>>)
             ELSE Stat(<<s[n \div 2], s[n \div 2 + 1]>>)

Return(mean, median, loads) ==
    [kind |-> "return", err |-> NoError, Mean |-> mean, Median |-> median,
     mask_loads |-> loads]

Raise(e, loads) ==
    [kind |-> "raise", err |-> e, Mean |-> NaNStat, Median |-> NaNStat,
     mask_loads |-> loads]

\* Lines 53-62 on the (masked) array a.
Reduce(a, loads) ==
    LET nonzero == Nonzero(a)
    IN  IF nonzero = <<>> THEN Raise(Error("ValueError", "np.min"), loads)
        ELSE LET xs == Compressed(ReplaceZeros(a, DataMin(nonzero)))
             IN  Return(MeanNegLog10(xs), MedianNegLog10(xs), loads)

\* significant_signal(data_path, substitution, mask_path) on the disk files.
SignificantSignal(data_path, substitution, mpath, files) ==
    LET p == ResolvePath(data_path, substitution)
    IN  IF ~p.ok THEN Raise(Error("KeyError", "format"), 0)
        ELSE IF p.s \notin DOMAIN files
        THEN Return(NaNStat, NaNStat, 0)
        ELSE LET data == Flatten(files[p.s])
             IN  IF mpath # <<>>
                 THEN LET mp == AbsPath(ExpandUser(mpath))
                      IN  IF mp \notin DOMAIN files
                          THEN Raise(Error("FileNotFoundError", "mask"), 1)
                          ELSE Reduce(DropNaN(MaskedArray(data,
                                          Flatten(files[mp]))), 1)
                 ELSE Reduce(PlainArray(data), 0)

\* ------------------------------------------------------------- data frames
\* A DataFrame: the column names in order, the row index, and per column the
\* list of its cells.
Fields == <<"subject", "session", "task", "acquisition">>

MissingCell == <<"NaN">>

Frame(columns, index, col) == [columns |-> columns, index |-> index, col |-> col]

NRows(d) == Len(d.index)

IsField(f, keysets) == \A ks \in keysets : f \in ks

\* ------------------------------------------------------------- base metrics
Rat(n, d) == [num |-> n, den |-> d]

Mean(xs) == Rat(Sum(xs), Len(xs))

Median(xs) ==
    LET s == Sort(xs)
        n == Len(s)
    IN  IF n % 2 = 1 THEN Rat(s[(n + 1) \div 2], 1)
        ELSE Rat(s[n \div 2] + s[n \div 2 + 1], 2)

Count(x, xs) == Cardinality({i \in 1..Len(xs) : xs[i] = x})

\* scipy.stats.mode: the smallest of the most frequent values.
Mode(xs) ==
    LET best == {x \in Range(xs) : \A y \in Range(xs) : Count(y, xs) <= Count(x, xs)}
    IN  CHOOSE x \in best : \A y \in best : x <= y

\* np.std, kept as its square: (n * sum(x^2) - sum(x)^2) / n^2.
StdSquared(xs) ==
    LET n == Len(xs)
        sq == [i \in 1..n |-> xs[i] * xs[i]]
    IN  Rat(n * Sum(sq) - Sum(xs) * Sum(xs), n * n)

\* Lines 159-171: the frame of one file, with the metadata columns the
\* record has (a scalar is broadcast to every row).
UnitFrame(vols, substitution) ==
    LET T == Len(vols)
        present == SelectSeq(Fields, LAMBDA f : f \in DOMAIN substitution)
        stats == ("Mean" :> [i \in 1..T |-> Mean(vols[i])]) @@
                 ("Median" :> [i \in 1..T |-> Median(vols[i])]) @@
                 ("Mode" :> [i \in 1..T |-> Mode(vols[i])]) @@
                 ("Standard Deviation" :> [i \in 1..T |-> StdSquared(vols[i])])
        meta == [f \in Range(present) |-> [i \in 1..T |-> substitution[f]]]
    IN  Frame(<<"Mean", "Median", "Mode", "Standard Deviation">> \o present,
              [i \in 1..T |-> i - 1], stats @@ meta)

\* Variant: a missing file is absorbed as in significant_signal, as a frame
\* without rows.
BaseMetricsRecovering(file_path, substitution, files) ==
    LET p == ResolvePath(file_path, substitution)
    IN  IF ~p.ok THEN [kind |-> "raise", err |-> Error("KeyError", "format")]
        ELSE [kind |-> "return", err |-> NoError,
              df |-> UnitFrame(IF p.s \in DOMAIN files THEN files[p.s] ELSE <<>>,
                               substitution)]

\* base_metrics(file_path, substitution): nib.load is not guarded.
BaseMetrics(file_path, substitution, files) ==
    LET p == ResolvePath(file_path, substitution)
    IN  IF ~p.ok THEN [kind |-> "raise", err |-> Error("KeyError", "format")]
        ELSE IF p.s \notin DOMAIN files
        THEN [kind |-> "raise", err |-> Error("FileNotFoundError", "data")]
        ELSE [kind |-> "return", err |-> NoError,
              df |-> UnitFrame(files[p.s], substitution)]

\* ---------------------------------------------------------------- assembly
\* Variant: a metadata column is added when any record has the key, with a
\* missing cell for the records that lack it.
SignalFrameAnyRecord(data, subs) ==
    LET n == Len(subs)
        present == SelectSeq(Fields,
                             LAMBDA f : \E i \in 1..n : f \in DOMAIN subs[i])
        stats == ("Mean" :> [i \in 1..n |-> data[i][1]]) @@
                 ("Median" :> [i \in 1..n |-> data[i][2]])
        meta == [f \in Range(present) |->
                    [i \in 1..n |-> IF f \in DOMAIN subs[i] THEN subs[i][f]
                                    ELSE MissingCell]]
    IN  Frame(<<"Mean", "Median">> \o present, [i \in 1..n |-> i - 1],
              stats @@ meta)

\* Lines 98-107: Mean and Median from iter_data; a metadata column is added
\* when the list comprehension over all records raises no KeyError.
SignalFrame(data, subs) ==
    LET n == Len(subs)
        keysets == {DOMAIN subs[i] : i \in 1..n}
        present == SelectSeq(Fields, LAMBDA f : IsField(f, keysets))
        stats == ("Mean" :> [i \in 1..n |-> data[i][1]]) @@
                 ("Median" :> [i \in 1..n |-> data[i][2]])
        meta == [f \in Range(present) |-> [i \in 1..n |-> subs[i][f]]]
    IN  Frame(<<"Mean", "Median">> \o present, [i \in 1..n |-> i - 1],
              stats @@ meta)

RECURSIVE Union(_, _)
Union(cols, more) ==
    IF more = <<>> THEN cols
    ELSE Union(IF Head(more) \in Range(cols) THEN cols
               ELSE Append(cols, Head(more)), Tail(more))

\* pd.concat of two frames: the rows of both, the columns of both, a missing
\* cell where a frame lacks the column.
Concat2(a, b) ==
    LET columns == Union(a.columns, b.columns)
        cells(d, c) == IF c \in Range(d.columns) THEN d.col[c]
                       ELSE [i \in 1..NRows(d) |-> MissingCell]
    IN  Frame(columns, a.index \o b.index,
              [c \in Range(columns) |-> cells(a, c) \o cells(b, c)])

RECURSIVE ConcatFrom(_, _, _)
ConcatFrom(acc, data, i) ==
    IF i > Len(data) THEN acc ELSE ConcatFrom(Concat2(acc, data[i]), data, i + 1)

\* Line 203: pd.concat(base_metrics_data), defined for a non-empty list.
Concat(data) == ConcatFrom(data[1], data, 2)

\* -------------------------------------------------------------- persistence
LowerCase ==
    ("C" :> "c") @@ ("S" :> "s") @@ ("V" :> "v") @@ ("T" :> "t") @@ ("X" :> "x")

\* str.lower
Lower(s) ==
    [i \in 1..Len(s) |-> IF s[i] \in DOMAIN LowerCase THEN LowerCase[s[i]] ELSE s[i]]

\* str.endswith
EndsWith(s, suffix) ==
    /\ Len(s) >= Len(suffix)
    /\ SubSeq(s, Len(s) - Len(suffix) + 1, Len(s)) = suffix

DotCsv == <<".", "c", "s", "v">>

\* Lines 110 and 207.
AcceptedFormat(p) == EndsWith(Lower(p), DotCsv)

\* DataFrame.to_csv: a header line (the index column is unnamed), then one
\* line per row: its index label and its cells in column order.
ToCsv(d) ==
    [header |-> <<"">> \o d.columns,
     lines |-> [i \in 1..NRows(d) |->
                  [label |-> d.index[i],
                   cells |-> [k \in 1..Len(d.columns) |-> d.col[d.columns[k]][i]]]]]

\* Variant: the file is written before the extension is looked at.
SaveBeforeCheck(d, path, disk) ==
    IF path = <<>> THEN [raised |-> FALSE, disk |-> disk]
    ELSE LET target == AbsPath(ExpandUser(path))
         IN  [raised |-> ~AcceptedFormat(target),
              disk |-> (target :> ToCsv(d)) @@ disk]

\* Lines 108-113 and 205-210: what the save step leaves on disk and whether
\* it raises.
Save(d, path, disk) ==
    IF path = <<>> THEN [raised |-> FALSE, disk |-> disk]
    ELSE LET target == AbsPath(ExpandUser(path))
         IN  IF AcceptedFormat(target)
             THEN [raised |-> FALSE, disk |-> (target :> ToCsv(d)) @@ disk]
             ELSE [raised |-> TRUE, disk |-> disk]

\* ------------------------------------------------------------------ inputs
FileA == <<"/", "a">>

FileB == <<"/", "b">>

FileD == <<"/", "h", "/", "d">>

FileM == <<"/", "w", "/", "m">>

\* Volumes: a list of slices along the last axis, each a list of voxels.
Good1 == <<<<1, 0>>, <<2, 0>>>>

Good2 == <<<<2, 2>>, <<0, 1>>>>

AllZero == <<<<0, 0>>, <<0, 0>>>>

\* A mask in tenths: the last voxel is background.
MaskVol == <<<<10, 10>>, <<10, 0>>>>

NoFiles == [k \in {} |-> <<>>]

Templates == {<<"/", "{subject}">>, <<"~", "/", "d">>}

RA == ("subject" :> <<"a">>) @@ ("acquisition" :> <<"q">>)

RB == ("subject" :> <<"b">>) @@ ("session" :> <<"s">>) @@ ("task" :> <<"t">>)

RS == ("session" :> <<"s">>)

Records == {EmptyDict, RA, RB, RS}

DataDisks ==
    {a @@ b @@ (FileD :> Good1) :
        a \in {NoFiles, FileA :> Good1, FileA :> AllZero},
        b \in {NoFiles, FileB :> Good2}}

MaskPath == <<"m">>

OldCsvPath == <<"/", "w", "/", "a", ".", "c", "s", "v">>

OldCsv == [header |-> <<"">>, lines |-> <<>>]

SavePaths ==
    {<<>>, <<"a", ".", "c", "s", "v">>, <<"~", "/", "a", ".", "C", "S", "V">>,
     <<"/", "a", ".", "t", "x", "t">>}

InitialCsv == (OldCsvPath :> OldCsv)

NoFrame == Frame(<<>>, <<>>, EmptyDict)

NoRet == [kind |-> "none", err |-> NoError, Mean |-> NaNStat, Median |-> NaNStat,
          mask_loads |-> 0]

\* ------------------------------------------------------------ the batch call
N == Len(substitutions)

Running == {i \in 1..N : status[i] = "running"}

\* joblib's effective_n_jobs: a negative n_jobs counts back from the number
\* of CPUs, never below one worker.
Workers(n, c) ==
    IF n < 0 THEN (IF c + 1 + n > 1 THEN c + 1 + n ELSE 1) ELSE n

\* Lines 91 and 197.
NJobs(c) == c - 2

\* Variant: the results are kept in the order the jobs complete.
CollectInCompletionOrder(data, done, i, r) == ((Len(done) + 1) :> r) @@ data

\* Parallel returns the results in the order of the inputs: the result of
\* job i is element i, whenever job i completes.
Collect(data, done, i, r) == (i :> r) @@ data

\* The function a job runs, lines 92 and 198.
Unit(i) ==
    IF mode = "sig"
    THEN LET r == SignificantSignal(file_template, substitutions[i], mask_path, fs)
         IN  [kind |-> r.kind, err |-> r.err, value |-> <<r.Mean, r.Median>>,
              mask_loads |-> r.mask_loads]
    ELSE LET r == BaseMetrics(file_template, substitutions[i], fs)
         IN  [kind |-> r.kind, err |-> r.err,
              value |-> IF r.kind = "return" THEN r.df ELSE NoFrame,
              mask_loads |-> 0]

Init ==
    /\ mode \in {"sig", "base"}
    /\ file_template \in Templates
    /\ substitutions \in SeqsUpTo(Records, MaxN)
    /\ mask_path \in IF mode = "sig" THEN {<<>>, MaskPath} ELSE {<<>>}
    /\ \E d \in DataDisks :
         \E m \in IF mask_path = <<>> THEN {NoFiles}
                  ELSE {NoFiles, FileM :> MaskVol} :
            fs = d @@ m
    /\ save_as = <<>>
    /\ csv = InitialCsv
    /\ pc = "call"
    /\ cpu_count = 0
    /\ n_jobs = 0
    /\ status = [i \in 1..Len(substitutions) |-> "pending"]
    /\ iter_data = NoFiles
    /\ order = <<>>
    /\ err = NoError
    /\ df = NoFrame
    /\ mask_loads = 0
    /\ ret = NoRet

\* Lines 91-92 and 197-198: n_jobs from the CPU count, and the pool is set
\* up; joblib refuses n_jobs = 0 with a ValueError.
Call ==
    /\ pc = "call"
    /\ \E c \in 1..MaxCpu :
         /\ cpu_count' = c
         /\ n_jobs' = NJobs(c)
         /\ IF NJobs(c) = 0
            THEN pc' = "raised" /\ err' = Error("ValueError", "n_jobs")
            ELSE pc' = "pool" /\ err' = err
    /\ UNCHANGED <<mode, file_template, substitutions, mask_path, save_as, fs,
                   csv, status, iter_data, order, df, mask_loads, ret>>

\* A worker takes the next job of the list when one is free.
Start(i) ==
    /\ pc = "pool"
    /\ status[i] = "pending"
    /\ \A j \in 1..(i - 1) : status[j] # "pending"
    /\ Cardinality(Running) < Workers(n_jobs, cpu_count)
    /\ status' = [status EXCEPT ![i] = "running"]
    /\ UNCHANGED <<mode, file_template, substitutions, mask_path, save_as, fs,
                   csv, pc, cpu_count, n_jobs, iter_data, order, err, df,
                   mask_loads, ret>>

\* A job completes: its result is collected, or its exception leaves the
\* call.
Finish(i) ==
    /\ pc = "pool"
    /\ status[i] = "running"
    /\ LET r == Unit(i)
       IN  /\ mask_loads' = mask_loads + r.mask_loads
           /\ IF r.kind = "raise"
              THEN /\ pc' = "raised"
                   /\ err' = r.err
                   /\ UNCHANGED iter_data
              ELSE /\ iter_data' = Collect(iter_data, order, i, r.value)
                   /\ UNCHANGED <<pc, err>>
    /\ status' = [status EXCEPT ![i] = "done"]
    /\ order' = Append(order, i)
    /\ UNCHANGED <<mode, file_template, substitutions, mask_path, save_as, fs,
                   csv, cpu_count, n_jobs, df, ret>>

\* Lines 98-114 and 203-211, once every job has returned: the frame is
\* built, then saved if save_as is given (save_as is first read here).
Assemble ==
    /\ pc = "pool"
    /\ \A i \in 1..N : status[i] = "done"
    /\ IF mode = "base" /\ N = 0
       THEN /\ pc' = "raised"
            /\ err' = Error("ValueError", "pd.concat")
            /\ UNCHANGED <<save_as, csv, df>>
       ELSE \E path \in SavePaths :
              LET d == IF mode = "sig" THEN SignalFrame(iter_data, substitutions)
                       ELSE Concat(iter_data)
                  s == Save(d, path, csv)
              IN  /\ save_as' = path
                  /\ csv' = s.disk
                  /\ IF s.raised
                     THEN /\ pc' = "raised"
                          /\ err' = Error("ValueError", "save_as")
                          /\ UNCHANGED df
                     ELSE /\ pc' = "returned"
                          /\ df' = d
                          /\ UNCHANGED err
    /\ UNCHANGED <<mode, file_template, substitutions, mask_path, fs, cpu_count,
                   n_jobs, status, iter_data, order, mask_loads, ret>>

Next ==
    \/ Call
    \/ \E i \in 1..N : Start(i)
    \/ \E i \in 1..N : Finish(i)
    \/ Assemble

Spec == Init /\ [][Next]_vars

\* ------------------------------------------------- one significant_signal call
VoxelValues == {NaNV} \cup 0..MaxVal

MaskValues == {0, 5, 10}

UnitData == <<"/", "d">>

UnitInit ==
    /\ mode = "unit"
    /\ file_template = UnitData
    /\ substitutions = <<EmptyDict>>
    /\ \E data \in SeqsUpTo(VoxelValues, MaxVox) :
         \/ mask_path = <<>> /\ fs = (UnitData :> <<data>>)
         \/ /\ mask_path = MaskPath
            /\ \E mask \in [1..Len(data) -> MaskValues] :
                 fs = (UnitData :> <<data>>) @@ (FileM :> <<mask>>)
    /\ save_as = <<>>
    /\ csv = NoFiles
    /\ pc = "call"
    /\ cpu_count = 0
    /\ n_jobs = 0
    /\ status = <<>>
    /\ iter_data = NoFiles
    /\ order = <<>>
    /\ err = NoError
    /\ df = NoFrame
    /\ mask_loads = 0
    /\ ret = NoRet

\* significant_signal(data_path, mask_path=mask_path) called directly.
CallUnit ==
    /\ pc = "call"
    /\ mode = "unit"
    /\ LET r == SignificantSignal(file_template, substitutions[1], mask_path, fs)
       IN  /\ ret' = r
           /\ err' = r.err
           /\ mask_loads' = r.mask_loads
           /\ pc' = IF r.kind = "raise" THEN "raised" ELSE "returned"
    /\ UNCHANGED <<mode, file_template, substitutions, mask_path, save_as, fs,
                   csv, cpu_count, n_jobs, status, iter_data, order, df>>

UnitNext == CallUnit

UnitSpec == UnitInit /\ [][UnitNext]_vars

\* ================================================================== claims
\* What the formulas below read off the inputs.
Resolves(i) == ResolvePath(file_template, substitutions[i]).ok

DataExists(i) ==
    /\ Resolves(i)
    /\ ResolvePath(file_template, substitutions[i]).s \in DOMAIN fs

HasNonzeroVoxel(i) ==
    \E v \in Range(Flatten(fs[ResolvePath(file_template, substitutions[i]).s])) :
        v > 0

LacksKey(t, sub) ==
    \E tok \in Range(t) \cap DOMAIN PlaceholderKey :
        PlaceholderKey[tok] \notin DOMAIN sub

SaveStepRan == pc = "returned" \/ (pc = "raised" /\ err.at = "save_as")

SaveTarget == AbsPath(ExpandUser(save_as))

CsvSuffix(p) ==
    /\ Len(p) >= 4
    /\ SubSeq(p, Len(p) - 3, Len(p)) = <<".", "c", "s", "v">>

CsvSuffixAnyCase(p) ==
    /\ Len(p) >= 4
    /\ p[Len(p) - 3] = "."
    /\ p[Len(p) - 2] \in {"c", "C"}
    /\ p[Len(p) - 1] \in {"s", "S"}
    /\ p[Len(p)] \in {"v", "V"}

\* ------------------------------------------------------------------------ C1
\* C1: in every table iter_significant_signal returns, whatever order the jobs
\* completed in and however many workers ran them, there are exactly N rows and
\* row i holds the Mean and Median of substitutions[i] and, in every metadata
\* column, the value of substitutions[i]: the table is a function of the
\* inputs alone.
C1_RowsFollowInputOrder ==
    (mode = "sig" /\ pc = "returned") =>
        /\ NRows(df) = N
        /\ df.index = [i \in 1..N |-> i - 1]
        /\ \A i \in 1..N :
             LET r == SignificantSignal(file_template, substitutions[i],
                                        mask_path, fs)
             IN  /\ df.col["Mean"][i] = r.Mean
                 /\ df.col["Median"][i] = r.Median
                 /\ \A f \in Range(df.columns) \ {"Mean", "Median"} :
                      df.col[f][i] = substitutions[i][f]

\* Two workers, the second job completed first, and the two rows differ.
C1_Witness ==
    /\ mode = "sig"
    /\ pc = "returned"
    /\ order = <<2, 1>>
    /\ Workers(n_jobs, cpu_count) >= 2
    /\ df.col["Mean"][1] # df.col["Mean"][2]
    /\ "subject" \in Range(df.columns)
    /\ df.col["subject"][1] # df.col["subject"][2]

\* ------------------------------------------------------------------------ C2
C2_Pre ==
    /\ mode = "sig"
    /\ mask_path = <<>>
    /\ \A i \in 1..N : Resolves(i) /\ (DataExists(i) => HasNonzeroVoxel(i))

\* C2: with every record pointing to a missing file or to a well-formed one,
\* iter_significant_signal is not aborted (only the save step may still
\* refuse save_as) and returns N rows: (NaN, NaN) at the index of each
\* missing file, computed non-NaN values at the index of each existing file.
C2_MissingFilesGiveNaNRows ==
    C2_Pre =>
        /\ pc = "raised" => err.at = "save_as"
        /\ pc = "returned" =>
             /\ NRows(df) = N
             /\ \A i \in 1..N :
                  IF DataExists(i)
                  THEN ~df.col["Mean"][i].nan /\ ~df.col["Median"][i].nan
                  ELSE df.col["Mean"][i] = NaNStat /\ df.col["Median"][i] = NaNStat

\* The same statement for the calls whose pool was set up: it holds there.
C2_HoldsOncePoolRuns == (pc = "raised" /\ err.at = "n_jobs") \/ C2_MissingFilesGiveNaNRows

\* ------------------------------------------------------------------------ C3
\* C3: a unit whose template names a field that its record lacks (the empty
\* record included) ends in the KeyError of the formatting step, which leaves
\* the call; it never returns a result.
C3_MissingKeyRaises ==
    mode \in {"sig", "base"} =>
        \A i \in 1..N :
            (status[i] = "done" /\ LacksKey(file_template, substitutions[i])) =>
                (pc = "raised" /\ err = Error("KeyError", "format"))

\* ------------------------------------------------------------------------ C4
UnitVoxels == Flatten(fs[UnitData])

UnitMask ==
    IF mask_path = <<>> THEN [i \in 1..Len(UnitVoxels) |-> 10]
    ELSE Flatten(fs[FileM])

\* C4: when the loaded array has no usable voxel (it is empty, or every voxel
\* kept by the mask is exactly zero, or the mask keeps no voxel),
\* significant_signal returns (NaN, NaN) and does not raise.
C4_DegenerateGivesNaN ==
    (/\ mode = "unit"
     /\ pc # "call"
     /\ \A i \in 1..Len(UnitVoxels) : UnitMask[i] < 5 \/ UnitVoxels[i] = 0) =>
        (ret.kind = "return" /\ ret.Mean = NaNStat /\ ret.Median = NaNStat)

\* ------------------------------------------------------------------------ C5
\* C5: the n_jobs handed to the worker pool is max(1, cpu_count - 2).
C5_WorkerFloor ==
    (mode \in {"sig", "base"} /\ pc # "call") =>
        n_jobs = (IF cpu_count - 2 > 1 THEN cpu_count - 2 ELSE 1)

C7_CsvLowerCaseOnly ==
    /\ ~SaveStepRan => csv = InitialCsv
    /\ SaveStepRan =>
         IF save_as = <<>> THEN pc = "returned" /\ csv = InitialCsv
         ELSE IF CsvSuffix(save_as)
         THEN /\ pc = "returned"
              /\ csv = (SaveTarget :> ToCsv(df)) @@ InitialCsv
         ELSE /\ pc = "raised"
              /\ csv = InitialCsv

\* C7 amended: the ending of the absolute, home-expanded path is compared
\* with ".csv" without regard to letter case, so
\* ".CSV" is written like ".csv"; every other non-empty save_as raises the
\* ValueError with the disk untouched during the whole call and no table
\* returned; the written path is absolute and home-expanded; an empty save_as
\* writes nothing and raises nothing.
C7_CsvAnyCase ==
    /\ ~SaveStepRan => csv = InitialCsv
    /\ SaveStepRan =>
         IF save_as = <<>> THEN pc = "returned" /\ csv = InitialCsv
         ELSE IF CsvSuffixAnyCase(SaveTarget)
         THEN /\ pc = "returned"
              /\ csv = (SaveTarget :> ToCsv(df)) @@ InitialCsv
              /\ Head(SaveTarget) = "/"
              /\ "~" \notin Range(SaveTarget)
              /\ Len(csv[SaveTarget].lines) = NRows(df)
         ELSE /\ pc = "raised"
              /\ err = Error("ValueError", "save_as")
              /\ csv = InitialCsv
              /\ df = NoFrame

\* An upper-case extension under the home directory: written and returned.
C7_Witness ==
    /\ pc = "returned"
    /\ save_as = <<"~", "/", "a", ".", "C", "S", "V">>
    /\ NRows(df) >= 1
    /\ <<"/", "h", "/", "a", ".", "C", "S", "V">> \in DOMAIN csv

\* ------------------------------------------------------------------------ C8
\* C8: when the resolved path of any record does not exist,
\* iter_base_metrics never returns: no table, no output file, and the jobs
\* cannot all complete without the error leaving the call, wherever the
\* missing unit stands and whatever order the units complete in.
C8_MissingFileAbortsBaseMetrics ==
    (mode = "base" /\ \E i \in 1..N : Resolves(i) /\ ~DataExists(i)) =>
        /\ pc # "returned"
        /\ df = NoFrame
        /\ csv = InitialCsv
        /\ (\A i \in 1..N : status[i] = "done") => pc = "raised"
        /\ \A i \in 1..N :
             (status[i] = "done" /\ Resolves(i) /\ ~DataExists(i)) =>
                 pc = "raised"

\* The first record's file is missing; the second unit completed first and
\* succeeded, then the first raised.
C8_Witness ==
    /\ mode = "base"
    /\ N = 2
    /\ order = <<2, 1>>
    /\ DOMAIN iter_data = {2}
    /\ Resolves(1) /\ ~DataExists(1)
    /\ pc = "raised"
    /\ err = Error("FileNotFoundError", "data")

\* ------------------------------------------------------------------------ C9
InMask == SelectSeq([i \in 1..Len(UnitVoxels) |-> i], LAMBDA i : UnitMask[i] >= 5)

InMaskNotNaN == SelectSeq(InMask, LAMBDA i : UnitVoxels[i] # NaNV)

ValuesAt(idx) == [k \in 1..Len(idx) |-> UnitVoxels[idx[k]]]

\* Mean and median of -log10 over the values vs, a zero first replaced by
\* 0.99 times the least nonzero value; NaN as soon as one value is NaN.
ExpectedTerms(vs) ==
    LET nz == {v \in Range(vs) : v # 0}
        least == CHOOSE x \in nz : \A y \in nz : x <= y
    IN  Sort([k \in 1..Len(vs) |-> IF vs[k] = 0 THEN 99 * least ELSE 100 * vs[k]])

ExpectedMean(vs) ==
    IF NaNV \in Range(vs) THEN NaNStat ELSE Stat(ExpectedTerms(vs))

ExpectedMedian(vs) ==
    IF NaNV \in Range(vs) THEN NaNStat
    ELSE LET t == ExpectedTerms(vs)
             n == Len(t)
         IN  Stat(SubSeq(t, (n + 1) \div 2, n \div 2 + 1))

Direct(vs) == SignificantSignal(UnitData, EmptyDict, <<>>, UnitData :> <<vs>>)

C9_Pre ==
    /\ mode = "unit"
    /\ pc # "call"
    /\ mask_path # <<>>
    /\ \E k \in 1..Len(InMask) : UnitVoxels[InMask[k]] > 0

\* C9 as stated: with a mask, the voxels that contribute are exactly those
\* whose mask value is >= 0.5: the result is the mean and median of -log10
\* over them (zeros replaced by 0.99 times their least nonzero value), and it
\* equals what the unmasked computation gives on the array stripped of the
\* masked-out voxels.
C9_InMaskVoxelsOnly ==
    C9_Pre =>
        /\ ret.kind = "return"
        /\ ret.Mean = ExpectedMean(ValuesAt(InMask))
        /\ ret.Median = ExpectedMedian(ValuesAt(InMask))
        /\ ret.Mean = Direct(ValuesAt(InMask)).Mean
        /\ ret.Median = Direct(ValuesAt(InMask)).Median

\* C9 amended: with a mask, for voxels that are >= 0 or NaN, the voxels that
\* contribute are exactly those whose mask value is >= 0.5 and whose value is
\* not NaN (line 52 drops the NaN voxels when a mask is given); the result is
\* the mean and median of
\* -log10 over them, zeros replaced by 0.99 times their least nonzero value,
\* and equals the unmasked computation on the array stripped of the
\* masked-out and the NaN voxels.
C9_InMaskNotNaNVoxelsOnly ==
    C9_Pre =>
        /\ ret.kind = "return"
        /\ ~ret.Mean.nan
        /\ ret.Mean = ExpectedMean(ValuesAt(InMaskNotNaN))
        /\ ret.Median = ExpectedMedian(ValuesAt(InMaskNotNaN))
        /\ ret.Mean = Direct(ValuesAt(InMaskNotNaN)).Mean
        /\ ret.Median = Direct(ValuesAt(InMaskNotNaN)).Median

\* A zero background voxel masked out, a zero voxel and a nonzero voxel kept
\* (one of them by a mask value of exactly 0.5).
C9_Witness ==
    /\ mode = "unit"
    /\ pc = "returned"
    /\ mask_path # <<>>
    /\ UnitVoxels = <<0, 0, 2>>
    /\ UnitMask = <<0, 5, 10>>
    /\ ret.Mean = Stat(<<198, 200>>)

\* ----------------------------------------------------------------------- C10
C10_Pre ==
    /\ mode = "sig"
    /\ mask_path # <<>>
    /\ AbsPath(ExpandUser(mask_path)) \notin DOMAIN fs
    /\ \A i \in 1..N : Resolves(i)

\* C10: with a mask_path that does not exist, a unit whose data file is
\* missing returns without loading the mask, a unit whose data file exists
\* raises the mask's not-found error, and the call is aborted if and only if
\* a record's data file exists (the save step aside).
C10_MaskAbortsIffDataExists ==
    C10_Pre =>
        /\ (pc = "raised" /\ err.at # "save_as") =>
             /\ err = Error("FileNotFoundError", "mask")
             /\ \E i \in 1..N : DataExists(i)
        /\ pc = "returned" => \A i \in 1..N : ~DataExists(i)
        /\ mask_loads = Cardinality({i \in 1..N : status[i] = "done" /\ DataExists(i)})

\* The same statement for the calls whose pool was set up: it holds there.
C10_HoldsOncePoolRuns == (pc = "raised" /\ err.at = "n_jobs") \/ C10_MaskAbortsIffDataExists

====
